---- MODULE Spec2Model ----
(***************************************************************************)
(* The three scripts of inbox/af-agent-config-research:                    *)
(*   chart_script.py    the flow-diagram renderer                          *)
(*   chart_script_1.py  the hierarchy-tree renderer                        *)
(*   script.py          the mapping flattener                              *)
(* Each script is a straight-line batch program.  One run of one script is *)
(* modelled statement by statement; a renderer may then be run a second    *)
(* time on the same data.                                                  *)
(*                                                                         *)
(* Coordinates are kept in tenths of the plotting unit (x = 50 is 500,     *)
(* x = -3.5 is -35), so that the factor 0.9 of the arrowhead and the       *)
(* fractional coordinates of the tree are integers.  The flow diagram's    *)
(* coordinates are integers whose differences are multiples of 10, for     *)
(* which from + 0.9 * (to - from) in binary floating point is the exact    *)
(* value; the rounding of other floats is not modelled.                    *)
(*                                                                         *)
(* A Python dict is a sequence of entries in insertion order with distinct *)
(* keys.  A Python string that the code transforms (a category tag) is a   *)
(* tuple of one-character strings; other strings are TLA+ strings.         *)
(* None is the empty tuple, a present value v is the tuple <<v>>.          *)
(***************************************************************************)
EXTENDS Integers, Sequences, FiniteSets, TLC

VARIABLES
    script,          \* which of the three scripts this process runs
    data,            \* the literal input the script embeds
    pc,              \* position of the run in the script
    run,             \* 1 for the first run, 2 for the second
    i, j, k,         \* loop positions
    node_positions,  \* chart_script.py: id -> (x, y)
    fig,             \* the figure's traces, in the order they were added
    layout,          \* the figure's layout, None until it is updated
    seen_types,      \* chart_script.py: legend names already met
    rows,            \* script.py: the flattened rows
    out,             \* the output file, None until it is written
    stdout,          \* script.py: the two summary counts printed
    err,             \* the exception that ended the run, None if none
    prev             \* what the first run left: its traces, file and exception

vars == <<script, data, pc, run, i, j, k, node_positions, fig, layout,
          seen_types, rows, out, stdout, err, prev>>

(***************************************************************************)
(* Bounds of the generated inputs.                                         *)
(***************************************************************************)
MaxTypedNodes == 3
MaxEdgeNodes == 2
MaxEdges == 2
MaxTreeNodes == 3
MaxFields == 2
MaxCats == 2

(***************************************************************************)
(* Helpers.                                                                *)
(***************************************************************************)
None == <<>>

Some(v) == <<v>>

Range(s) == {s[n] : n \in 1..Len(s)}

Tenths(n) == 10 * n

\* All sequences over S of length at most n
SeqsUpTo(S, n) == UNION {[1..m -> S] : m \in 0..n}

\* All sequences over S of length at most n without repetition
DistinctSeqsUpTo(S, n) ==
    {s \in SeqsUpTo(S, n) : \A a, b \in 1..Len(s) : a # b => s[a] # s[b]}

(***************************************************************************)
(* str.title(): the first cased character of every run of cased            *)
(* characters is upper-cased and the others are lower-cased; an uncased    *)
(* character is kept and ends the run.                                     *)
(***************************************************************************)
LowerLetters ==
    <<"a","b","c","d","e","f","g","h","i","j","k","l","m",
      "n","o","p","q","r","s","t","u","v","w","x","y","z">>

UpperLetters ==
    <<"A","B","C","D","E","F","G","H","I","J","K","L","M",
      "N","O","P","Q","R","S","T","U","V","W","X","Y","Z">>

IsLower(c) == c \in Range(LowerLetters)

IsUpper(c) == c \in Range(UpperLetters)

IsCased(c) == IsLower(c) \/ IsUpper(c)

LetterIndex(c, letters) == CHOOSE n \in 1..Len(letters) : letters[n] = c

ToUpper(c) == IF IsLower(c) THEN UpperLetters[LetterIndex(c, LowerLetters)] ELSE c

ToLower(c) == IF IsUpper(c) THEN LowerLetters[LetterIndex(c, UpperLetters)] ELSE c

Title(s) ==
    [n \in 1..Len(s) |->
        IF n > 1 /\ IsCased(s[n - 1]) THEN ToLower(s[n]) ELSE ToUpper(s[n])]

(***************************************************************************)
(* chart_script.py: the literal data.                                      *)
(***************************************************************************)
TagInput == <<"i","n","p","u","t">>

TagProcess == <<"p","r","o","c","e","s","s">>

TagOutput == <<"o","u","t","p","u","t">>

\* A tag the color table has no entry for
TagUnknown == <<"d","a","t","a","_","s","t","o","r","e">>

Node(id, label, type, x, y) ==
    [id |-> id, label |-> label, type |-> type, x |-> Tenths(x), y |-> Tenths(y)]

Edge(from, to, label) == [from |-> from, to |-> to, label |-> label]

FlowData ==
    [nodes |-> <<
        Node("af_file", ".af File\n(JSON)", TagInput, 50, 200),
        Node("validator", "Zod Schema\nValidator", TagProcess, 200, 200),
        Node("parser", "AF Parser", TagProcess, 350, 200),
        Node("memory_converter", "Memory\nConverter", TagProcess, 500, 100),
        Node("tool_converter", "Tool\nConverter", TagProcess, 500, 200),
        Node("config_converter", "Config\nConverter", TagProcess, 500, 300),
        Node("agent_factory", "Mastra Agent\nFactory", TagProcess, 650, 200),
        Node("mastra_agent", "Mastra Agent\nInstance", TagOutput, 800, 200),
        Node("export_serializer", "Export\nSerializer", TagProcess, 650, 350),
        Node("export_af", "Exported\n.af File", TagOutput, 800, 350) >>,
     edges |-> <<
        Edge("af_file", "validator", "Parse JSON"),
        Edge("validator", "parser", "Valid .af"),
        Edge("parser", "memory_converter", "Core Memory +\nMessages"),
        Edge("parser", "tool_converter", "Tools +\nTool Rules"),
        Edge("parser", "config_converter", "LLM Config +\nEmbedding Config"),
        Edge("memory_converter", "agent_factory", "Memory Object"),
        Edge("tool_converter", "agent_factory", "Tools Array"),
        Edge("config_converter", "agent_factory", "Model Config"),
        Edge("agent_factory", "mastra_agent", "Create Agent"),
        Edge("mastra_agent", "export_serializer", "Export Request"),
        Edge("export_serializer", "export_af", "Serialize to .af") >>]

\* node_positions = {node["id"]: (node["x"], node["y"]) for node in nodes}:
\* a later node of the same id replaces an earlier one
NodePositions(nodes) ==
    [id \in {nodes[n].id : n \in 1..Len(nodes)} |->
        LET last == CHOOSE n \in 1..Len(nodes) :
                        /\ nodes[n].id = id
                        /\ \A m \in (n + 1)..Len(nodes) : nodes[m].id # id
        IN  <<nodes[last].x, nodes[last].y>>]

type_colors ==
    (TagInput :> "#1FB8CD") @@ (TagProcess :> "#FFC185") @@ (TagOutput :> "#5D878F")

(***************************************************************************)
(* Traces.  Every trace has the same fields; a field the code does not set *)
(* holds its default.                                                      *)
(***************************************************************************)
Scatter(mode, x, y, color, size, name, showlegend, text, fontsize, hover) ==
    [mode |-> mode, x |-> x, y |-> y, color |-> color, size |-> size,
     name |-> name, showlegend |-> showlegend, text |-> text,
     fontsize |-> fontsize, hover |-> hover]

\* Slip: the figure of an earlier run is reused instead of a new one
StaleFigure == fig

\* fig = go.Figure()
NewFigure == <<>>

NewLayout == None

\* seen_types = set()
NewSeenTypes == {}

\* Slip: the fraction is measured from the destination
ArrowAtFromDestination(from, to) == to + (9 * (from - to)) \div 10

\* arrow = from + 0.9 * (to - from), in tenths
ArrowAt(from, to) == from + (9 * (to - from)) \div 10

LineTrace(from_pos, to_pos) ==
    Scatter("lines", <<from_pos[1], to_pos[1]>>, <<from_pos[2], to_pos[2]>>,
            "#13343B", 2, None, FALSE, <<>>, 0, "skip")

ArrowTrace(from_pos, to_pos) ==
    Scatter("markers", <<ArrowAt(from_pos[1], to_pos[1])>>,
            <<ArrowAt(from_pos[2], to_pos[2])>>,
            "#13343B", 8, None, FALSE, <<>>, 0, "skip")

\* The two traces one edge adds, in the order they are added
EdgeTraces(from_pos, to_pos) ==
    <<LineTrace(from_pos, to_pos), ArrowTrace(from_pos, to_pos)>>

NodeTrace(node) ==
    Scatter("markers+text", <<node.x>>, <<node.y>>, type_colors[node.type], 60,
            Some(Title(node.type)), TRUE, <<node.label>>, 10, "skip")

KeyError(mapping, key) == Some([kind |-> "KeyError", mapping |-> mapping, key |-> key])

\* Slip: the x range ends at the rightmost node
FlowLayoutTight ==
    Some([title |-> "Mastra .af Agent Architecture",
          xrange |-> <<Tenths(-20), Tenths(800)>>,
          yrange |-> <<Tenths(50), Tenths(400)>>,
          showlegend |-> TRUE])

FlowLayout ==
    Some([title |-> "Mastra .af Agent Architecture",
          xrange |-> <<Tenths(-20), Tenths(870)>>,
          yrange |-> <<Tenths(50), Tenths(400)>>,
          showlegend |-> TRUE])

Image(file) == Some([file |-> file, data |-> fig, layout |-> layout])

(***************************************************************************)
(* chart_script.py: the run.                                               *)
(***************************************************************************)
IsFlow == script = "chart_script"

\* lines 6-44: the data, node_positions, type_colors, fig = go.Figure()
FlowStart ==
    /\ IsFlow /\ pc = "start"
    /\ node_positions' = NodePositions(data.nodes)
    /\ fig' = NewFigure
    /\ layout' = NewLayout
    /\ i' = 1
    /\ pc' = "edges"
    /\ UNCHANGED <<script, data, run, j, k, seen_types, rows, out, stdout, err, prev>>

\* Slip: an edge with an unknown endpoint is passed over
AddEdgeSkipping ==
    /\ IsFlow /\ pc = "edges" /\ i <= Len(data.edges)
    /\ LET edge == data.edges[i] IN
        fig' = IF edge.from \in DOMAIN node_positions /\ edge.to \in DOMAIN node_positions
               THEN fig \o EdgeTraces(node_positions[edge.from], node_positions[edge.to])
               ELSE fig
    /\ i' = i + 1
    /\ UNCHANGED <<script, data, pc, run, j, k, node_positions, layout, seen_types,
                   rows, out, stdout, err, prev>>

\* lines 47-77: one pass of the edge loop
AddEdge ==
    /\ IsFlow /\ pc = "edges" /\ i <= Len(data.edges)
    /\ LET edge == data.edges[i] IN
        IF edge.from \notin DOMAIN node_positions
        THEN /\ err' = KeyError("node_positions", edge.from)
             /\ pc' = "failed"
             /\ UNCHANGED <<fig, i>>
        ELSE IF edge.to \notin DOMAIN node_positions
        THEN /\ err' = KeyError("node_positions", edge.to)
             /\ pc' = "failed"
             /\ UNCHANGED <<fig, i>>
        ELSE /\ fig' = fig \o EdgeTraces(node_positions[edge.from],
                                         node_positions[edge.to])
             /\ i' = i + 1
             /\ UNCHANGED <<pc, err>>
    /\ UNCHANGED <<script, data, run, j, k, node_positions, layout, seen_types,
                   rows, out, stdout, prev>>

\* line 80: the edge loop is over, the node loop starts
EdgesDone ==
    /\ IsFlow /\ pc = "edges" /\ i > Len(data.edges)
    /\ i' = 1
    /\ pc' = "nodes"
    /\ UNCHANGED <<script, data, run, j, k, node_positions, fig, layout,
                   seen_types, rows, out, stdout, err, prev>>

\* Slip: the node trace is put below the traces already there
AddNodeBehind ==
    /\ IsFlow /\ pc = "nodes" /\ i <= Len(data.nodes)
    /\ LET node == data.nodes[i] IN
        IF node.type \notin DOMAIN type_colors
        THEN /\ err' = KeyError("type_colors", node.type)
             /\ pc' = "failed"
             /\ UNCHANGED <<fig, i>>
        ELSE /\ fig' = <<NodeTrace(node)>> \o fig
             /\ i' = i + 1
             /\ UNCHANGED <<pc, err>>
    /\ UNCHANGED <<script, data, run, j, k, node_positions, layout, seen_types,
                   rows, out, stdout, prev>>

\* lines 80-96: one pass of the node loop
AddNode ==
    /\ IsFlow /\ pc = "nodes" /\ i <= Len(data.nodes)
    /\ LET node == data.nodes[i] IN
        IF node.type \notin DOMAIN type_colors
        THEN /\ err' = KeyError("type_colors", node.type)
             /\ pc' = "failed"
             /\ UNCHANGED <<fig, i>>
        ELSE /\ fig' = Append(fig, NodeTrace(node))
             /\ i' = i + 1
             /\ UNCHANGED <<pc, err>>
    /\ UNCHANGED <<script, data, run, j, k, node_positions, layout, seen_types,
                   rows, out, stdout, prev>>

\* lines 99-100: seen_types = set(), the legend pass starts
NodesDone ==
    /\ IsFlow /\ pc = "nodes" /\ i > Len(data.nodes)
    /\ seen_types' = NewSeenTypes
    /\ i' = 1
    /\ pc' = "legend"
    /\ UNCHANGED <<script, data, run, j, k, node_positions, fig, layout,
                   rows, out, stdout, err, prev>>

\* hasattr(trace, 'name') and trace.name
HasName(trace) == trace.name # None /\ trace.name[1] # <<>>

\* Slip: a name met for the first time is not remembered
LegendStepForgetful ==
    /\ IsFlow /\ pc = "legend" /\ i <= Len(fig)
    /\ IF HasName(fig[i]) /\ fig[i].name[1] \in seen_types
       THEN fig' = [fig EXCEPT ![i].showlegend = FALSE]
       ELSE UNCHANGED fig
    /\ i' = i + 1
    /\ UNCHANGED <<script, data, pc, run, j, k, node_positions, layout,
                   seen_types, rows, out, stdout, err, prev>>

\* lines 100-105: one pass of the legend loop
LegendStep ==
    /\ IsFlow /\ pc = "legend" /\ i <= Len(fig)
    /\ IF HasName(fig[i])
       THEN IF fig[i].name[1] \in seen_types
            THEN /\ fig' = [fig EXCEPT ![i].showlegend = FALSE]
                 /\ UNCHANGED seen_types
            ELSE /\ seen_types' = seen_types \cup {fig[i].name[1]}
                 /\ UNCHANGED fig
       ELSE UNCHANGED <<fig, seen_types>>
    /\ i' = i + 1
    /\ UNCHANGED <<script, data, pc, run, j, k, node_positions, layout,
                   rows, out, stdout, err, prev>>

\* lines 108-130: fig.update_layout(...)
FlowUpdateLayout ==
    /\ IsFlow /\ pc = "legend" /\ i > Len(fig)
    /\ layout' = FlowLayout
    /\ pc' = "write"
    /\ UNCHANGED <<script, data, run, i, j, k, node_positions, fig, seen_types,
                   rows, out, stdout, err, prev>>

\* line 133: fig.write_image("mastra_af_architecture.png")
FlowWriteImage ==
    /\ IsFlow /\ pc = "write"
    /\ out' = Image("mastra_af_architecture.png")
    /\ pc' = "done"
    /\ UNCHANGED <<script, data, run, i, j, k, node_positions, fig, layout,
                   seen_types, rows, stdout, err, prev>>

(***************************************************************************)
(* chart_script_1.py: the literal data.  nodes is a dict name -> x, y,     *)
(* level; the coordinates below are written in tenths.                     *)
(***************************************************************************)
TreeNode(name, x, y, level) == [name |-> name, x |-> x, y |-> y, level |-> level]

TreeNodes ==
    << TreeNode("AgentSchema", 0, 50, 0),
       TreeNode("Core Fields", -30, 40, 1),
       TreeNode("Configuration", -10, 40, 1),
       TreeNode("Memory & Msgs", 10, 40, 1),
       TreeNode("Tooling", 30, 40, 1),
       TreeNode("Metadata", 50, 40, 1),
       TreeNode("agent_type", -40, 30, 2),
       TreeNode("name", -35, 30, 2),
       TreeNode("system", -25, 30, 2),
       TreeNode("version", -20, 30, 2),
       TreeNode("llm_config", -13, 30, 2),
       TreeNode("embed_config", -7, 30, 2),
       TreeNode("core_memory", 5, 30, 2),
       TreeNode("messages", 10, 30, 2),
       TreeNode("msg_indices", 15, 30, 2),
       TreeNode("tools", 25, 30, 2),
       TreeNode("tool_rules", 30, 30, 2),
       TreeNode("tool_env_vars", 35, 30, 2),
       TreeNode("tags", 45, 30, 2),
       TreeNode("metadata_", 50, 30, 2),
       TreeNode("created_at", 55, 30, 2),
       TreeNode("updated_at", 60, 30, 2) >>

TreeConnections ==
    << <<"AgentSchema", "Core Fields">>,
       <<"AgentSchema", "Configuration">>,
       <<"AgentSchema", "Memory & Msgs">>,
       <<"AgentSchema", "Tooling">>,
       <<"AgentSchema", "Metadata">>,
       <<"Core Fields", "agent_type">>,
       <<"Core Fields", "name">>,
       <<"Core Fields", "system">>,
       <<"Core Fields", "version">>,
       <<"Configuration", "llm_config">>,
       <<"Configuration", "embed_config">>,
       <<"Memory & Msgs", "core_memory">>,
       <<"Memory & Msgs", "messages">>,
       <<"Memory & Msgs", "msg_indices">>,
       <<"Tooling", "tools">>,
       <<"Tooling", "tool_rules">>,
       <<"Tooling", "tool_env_vars">>,
       <<"Metadata", "tags">>,
       <<"Metadata", "metadata_">>,
       <<"Metadata", "created_at">>,
       <<"Metadata", "updated_at">> >>

TreeData == [nodes |-> TreeNodes, connections |-> TreeConnections]

\* colors = ['#1FB8CD', '#FFC185', '#ECEBD5'], indexed from level 0
colors == <<"#1FB8CD", "#FFC185", "#ECEBD5">>

\* for level in range(3)
NumLevels == 3

\* The keys of the dict nodes
Names(nodes) == {nodes[n].name : n \in 1..Len(nodes)}

\* nodes[name]
Lookup(nodes, name) == nodes[CHOOSE n \in 1..Len(nodes) : nodes[n].name = name]

\* [name for name, data in nodes.items() if data['level'] == level]
RECURSIVE LevelNodes(_, _)
LevelNodes(nodes, level) ==
    IF nodes = <<>> THEN <<>>
    ELSE (IF Head(nodes).level = level THEN <<Head(nodes).name>> ELSE <<>>)
         \o LevelNodes(Tail(nodes), level)

\* 20 if level == 0 else 15 if level == 1 else 12
MarkerSize(level) == IF level = 0 THEN 20 ELSE IF level = 1 THEN 15 ELSE 12

\* 14 if level == 0 else 11 if level == 1 else 9
FontSize(level) == IF level = 0 THEN 14 ELSE IF level = 1 THEN 11 ELSE 9

ConnectionTrace(parent, child) ==
    Scatter("lines", <<parent.x, child.x>>, <<parent.y, child.y>>,
            "#5D878F", 2, None, FALSE, <<>>, 0, "skip")

\* Slip: the tier is taken from the place of the level's first node in the
\* mapping instead of the level
LevelTraceByPosition(nodes, level) ==
    LET level_nodes == LevelNodes(nodes, level)
        place == (CHOOSE n \in 1..Len(nodes) : nodes[n].name = level_nodes[1]) - 1
        tier == IF place < NumLevels THEN place ELSE NumLevels - 1
    IN
    Scatter("markers+text",
            [n \in 1..Len(level_nodes) |-> Lookup(nodes, level_nodes[n]).x],
            [n \in 1..Len(level_nodes) |-> Lookup(nodes, level_nodes[n]).y],
            colors[tier + 1], MarkerSize(tier), None, FALSE,
            level_nodes, FontSize(tier), "text")

LevelTrace(nodes, level) ==
    LET level_nodes == LevelNodes(nodes, level) IN
    Scatter("markers+text",
            [n \in 1..Len(level_nodes) |-> Lookup(nodes, level_nodes[n]).x],
            [n \in 1..Len(level_nodes) |-> Lookup(nodes, level_nodes[n]).y],
            colors[level + 1], MarkerSize(level), None, FALSE,
            level_nodes, FontSize(level), "text")

TreeLayout ==
    Some([title |-> "AgentSchema Hierarchical Structure",
          xrange |-> <<-50, 70>>,
          yrange |-> <<25, 55>>,
          showlegend |-> FALSE])

(***************************************************************************)
(* chart_script_1.py: the run.                                             *)
(***************************************************************************)
IsTree == script = "chart_script_1"

\* lines 5-75: nodes, connections, colors, fig = go.Figure()
TreeStart ==
    /\ IsTree /\ pc = "start"
    /\ fig' = NewFigure
    /\ layout' = NewLayout
    /\ i' = 1
    /\ pc' = "connections"
    /\ UNCHANGED <<script, data, run, j, k, node_positions, seen_types, rows,
                   out, stdout, err, prev>>

\* lines 78-86: one pass of the connection loop
AddConnection ==
    /\ IsTree /\ pc = "connections" /\ i <= Len(data.connections)
    /\ LET parent == data.connections[i][1]
           child == data.connections[i][2]
       IN
        IF parent \notin Names(data.nodes)
        THEN /\ err' = KeyError("nodes", parent)
             /\ pc' = "failed"
             /\ UNCHANGED <<fig, i>>
        ELSE IF child \notin Names(data.nodes)
        THEN /\ err' = KeyError("nodes", child)
             /\ pc' = "failed"
             /\ UNCHANGED <<fig, i>>
        ELSE /\ fig' = Append(fig, ConnectionTrace(Lookup(data.nodes, parent),
                                                   Lookup(data.nodes, child)))
             /\ i' = i + 1
             /\ UNCHANGED <<pc, err>>
    /\ UNCHANGED <<script, data, run, j, k, node_positions, layout, seen_types,
                   rows, out, stdout, prev>>

\* line 89: the connection loop is over, the level loop starts at level 0
ConnectionsDone ==
    /\ IsTree /\ pc = "connections" /\ i > Len(data.connections)
    /\ i' = 0
    /\ pc' = "levels"
    /\ UNCHANGED <<script, data, run, j, k, node_positions, fig, layout,
                   seen_types, rows, out, stdout, err, prev>>

\* lines 89-110: one pass of the level loop, i is the level
AddLevel ==
    /\ IsTree /\ pc = "levels" /\ i < NumLevels
    /\ fig' = IF LevelNodes(data.nodes, i) # <<>>
              THEN Append(fig, LevelTrace(data.nodes, i))
              ELSE fig
    /\ i' = i + 1
    /\ UNCHANGED <<script, data, pc, run, j, k, node_positions, layout,
                   seen_types, rows, out, stdout, err, prev>>

\* lines 113-123: fig.update_layout(...), update_xaxes, update_yaxes
TreeUpdateLayout ==
    /\ IsTree /\ pc = "levels" /\ i >= NumLevels
    /\ layout' = TreeLayout
    /\ pc' = "write"
    /\ UNCHANGED <<script, data, run, i, j, k, node_positions, fig, seen_types,
                   rows, out, stdout, err, prev>>

\* line 126: fig.write_image('agent_schema_tree.png')
TreeWriteImage ==
    /\ IsTree /\ pc = "write"
    /\ out' = Image("agent_schema_tree.png")
    /\ pc' = "done"
    /\ UNCHANGED <<script, data, run, i, j, k, node_positions, fig, layout,
                   seen_types, rows, stdout, err, prev>>

(***************************************************************************)
(* script.py: the literal data.  A value is a dict (entries in insertion   *)
(* order) or a string; isinstance(v, dict) reads the tag.                  *)
(***************************************************************************)
Str(s) == [isdict |-> FALSE, str |-> s, items |-> <<>>]

Dict(items) == [isdict |-> TRUE, str |-> "", items |-> items]

Entry(key, value) == [key |-> key, value |-> value]

af_to_mastra_mapping ==
    << Entry("Component Mapping", Dict(<<
          Entry(".af Core Components", Dict(<<
             Entry("agent_type", Str("String identifier (e.g., 'memgpt')")),
             Entry("name", Str("Agent display name")),
             Entry("description", Str("Optional agent description")),
             Entry("system", Str("System prompt/instructions")),
             Entry("llm_config", Str("Model configuration (provider, model name, parameters)")),
             Entry("embedding_config", Str("Embedding model settings")),
             Entry("core_memory", Str("List of memory blocks (personality, user info)")),
             Entry("messages", Str("Complete message history with metadata")),
             Entry("in_context_message_indices", Str("Which messages are in current context")),
             Entry("tools", Str("Tool definitions (schema, source code, metadata)")),
             Entry("tool_rules", Str("Tool execution rules and constraints")),
             Entry("tool_exec_environment_variables", Str("Environment variables for tools")),
             Entry("tags", Str("Agent tags/labels")),
             Entry("metadata_", Str("Additional metadata")),
             Entry("version", Str("Schema version")),
             Entry("created_at", Str("Creation timestamp")),
             Entry("updated_at", Str("Last update timestamp")) >>)),
          Entry("Mastra Agent Equivalent", Dict(<<
             Entry("name", Str("Agent.name")),
             Entry("description", Str("Agent.description")),
             Entry("instructions", Str("Agent.instructions (from .af system field)")),
             Entry("model", Str("Agent.model (derived from llm_config)")),
             Entry("tools", Str("Agent.tools (converted from .af tools)")),
             Entry("memory", Str("Agent.memory (converted from core_memory + messages)")),
             Entry("workflows", Str("Not directly supported in .af")),
             Entry("evals", Str("Not directly supported in .af")),
             Entry("voice", Str("Not directly supported in .af")) >>)) >>)),
       Entry("Key Differences", Dict(<<
          Entry("Memory Management", Dict(<<
             Entry("af_approach", Str("Explicit core_memory blocks + message history")),
             Entry("mastra_approach", Str("Memory class with storage adapters")) >>)),
          Entry("Tool Definitions", Dict(<<
             Entry("af_approach", Str("Complete tool source code + JSON schema")),
             Entry("mastra_approach", Str("TypeScript functions with type definitions")) >>)),
          Entry("Context Management", Dict(<<
             Entry("af_approach", Str("in_context_message_indices array")),
             Entry("mastra_approach", Str("Handled by memory system automatically")) >>)) >>)) >>

Row(category, subcategory, field, description) ==
    [Category |-> category, Subcategory |-> subcategory, Field |-> field,
     Description |-> description]

\* The row of a field of a subcategory
FieldRow(category, subcategory, entry) ==
    Row(category, subcategory, entry.key, entry.value)

\* Slip: the subcategory is written to the Field column
BareRowMisplaced(category, subcategory, details) ==
    Row(category, "", subcategory, details)

\* The row of a subcategory whose value is not a dict
BareRow(category, subcategory, details) ==
    Row(category, subcategory, "", details)

\* df = pd.DataFrame(rows); df.to_csv(..., index=False): the columns are the
\* keys of the row dicts, so no row gives no column
Csv(rs) ==
    Some([file |-> "af_mastra_mapping.csv",
          header |-> IF rs = <<>> THEN <<>>
                     ELSE <<"Category", "Subcategory", "Field", "Description">>,
          index |-> FALSE,
          rows |-> rs])

\* len([r for r in rows if r['Category'] == category])
CountCategory(rs, category) ==
    Cardinality({n \in 1..Len(rs) : rs[n].Category = category})

(***************************************************************************)
(* script.py: the run.  i, j, k are the positions of the three loops.      *)
(***************************************************************************)
IsFlatten == script = "script"

\* lines 4-57: the mapping, rows = []
FlattenStart ==
    /\ IsFlatten /\ pc = "start"
    /\ rows' = <<>>
    /\ i' = 1
    /\ pc' = "categories"
    /\ UNCHANGED <<script, data, run, j, k, node_positions, fig, layout,
                   seen_types, out, stdout, err, prev>>

\* Slip: a top-level entry that is not a dict gives a row of its own
NextCategoryKeepingText ==
    /\ IsFlatten /\ pc = "categories" /\ i <= Len(data)
    /\ IF data[i].value.isdict
       THEN /\ j' = 1
            /\ pc' = "subcategories"
            /\ UNCHANGED <<i, rows>>
       ELSE /\ rows' = Append(rows, Row(data[i].key, "", "", data[i].value))
            /\ i' = i + 1
            /\ UNCHANGED <<j, pc>>
    /\ UNCHANGED <<script, data, run, k, node_positions, fig, layout,
                   seen_types, out, stdout, err, prev>>

\* lines 58-59: the next top-level entry; one that is not a dict is passed over
NextCategory ==
    /\ IsFlatten /\ pc = "categories" /\ i <= Len(data)
    /\ IF data[i].value.isdict
       THEN /\ j' = 1
            /\ pc' = "subcategories"
            /\ UNCHANGED i
       ELSE /\ i' = i + 1
            /\ UNCHANGED <<j, pc>>
    /\ UNCHANGED <<script, data, run, k, node_positions, fig, layout,
                   seen_types, rows, out, stdout, err, prev>>

\* lines 60-61, 69-75: the next subcategory; a value that is not a dict gives
\* one row with an empty Field
NextSubcategory ==
    /\ IsFlatten /\ pc = "subcategories" /\ j <= Len(data[i].value.items)
    /\ LET category == data[i].key
           subcategory == data[i].value.items[j].key
           details == data[i].value.items[j].value
       IN
        IF details.isdict
        THEN /\ k' = 1
             /\ pc' = "fields"
             /\ UNCHANGED <<j, rows>>
        ELSE /\ rows' = Append(rows, BareRow(category, subcategory, details))
             /\ j' = j + 1
             /\ UNCHANGED <<k, pc>>
    /\ UNCHANGED <<script, data, run, i, node_positions, fig, layout,
                   seen_types, out, stdout, err, prev>>

\* Slip: the row is put in front of the rows already there
AddFieldRowAtFront ==
    /\ IsFlatten /\ pc = "fields"
    /\ k <= Len(data[i].value.items[j].value.items)
    /\ rows' = <<FieldRow(data[i].key, data[i].value.items[j].key,
                          data[i].value.items[j].value.items[k])>> \o rows
    /\ k' = k + 1
    /\ UNCHANGED <<script, data, pc, run, i, j, node_positions, fig, layout,
                   seen_types, out, stdout, err, prev>>

\* lines 62-68: the next field of the subcategory gives one row
AddFieldRow ==
    /\ IsFlatten /\ pc = "fields"
    /\ k <= Len(data[i].value.items[j].value.items)
    /\ rows' = Append(rows, FieldRow(data[i].key, data[i].value.items[j].key,
                                     data[i].value.items[j].value.items[k]))
    /\ k' = k + 1
    /\ UNCHANGED <<script, data, pc, run, i, j, node_positions, fig, layout,
                   seen_types, out, stdout, err, prev>>

\* line 62: the fields of the subcategory are exhausted
FieldsDone ==
    /\ IsFlatten /\ pc = "fields"
    /\ k > Len(data[i].value.items[j].value.items)
    /\ j' = j + 1
    /\ pc' = "subcategories"
    /\ UNCHANGED <<script, data, run, i, k, node_positions, fig, layout,
                   seen_types, rows, out, stdout, err, prev>>

\* line 60: the subcategories of the category are exhausted
SubcategoriesDone ==
    /\ IsFlatten /\ pc = "subcategories" /\ j > Len(data[i].value.items)
    /\ i' = i + 1
    /\ pc' = "categories"
    /\ UNCHANGED <<script, data, run, j, k, node_positions, fig, layout,
                   seen_types, rows, out, stdout, err, prev>>

\* lines 77-78: the rows are written as CSV
ToCsv ==
    /\ IsFlatten /\ pc = "categories" /\ i > Len(data)
    /\ out' = Csv(rows)
    /\ pc' = "print"
    /\ UNCHANGED <<script, data, run, i, j, k, node_positions, fig, layout,
                   seen_types, rows, stdout, err, prev>>

\* lines 80-83: the two summary counts
PrintCounts ==
    /\ IsFlatten /\ pc = "print"
    /\ stdout' = Some(<<CountCategory(rows, "Component Mapping"),
                        CountCategory(rows, "Key Differences")>>)
    /\ pc' = "done"
    /\ UNCHANGED <<script, data, run, i, j, k, node_positions, fig, layout,
                   seen_types, rows, out, err, prev>>

(***************************************************************************)
(* A second run of a renderer on the same data.  It is a new process: it   *)
(* starts at the top of the script with no exception pending.  What the    *)
(* first run left behind is kept as it was, the file on disk included, so  *)
(* that only the script's own assignments can make the second run          *)
(* independent of the first.                                               *)
(***************************************************************************)
Finished == pc \in {"done", "failed"}

Rerun ==
    /\ (IsFlow \/ IsTree) /\ Finished /\ run = 1
    /\ prev' = Some([fig |-> fig, layout |-> layout, out |-> out, err |-> err])
    /\ run' = 2
    /\ pc' = "start"
    /\ err' = None
    /\ UNCHANGED <<script, data, i, j, k, node_positions, fig, layout,
                   seen_types, rows, out, stdout>>

(***************************************************************************)
(* The inputs: the literal data of each script, and small data of the same *)
(* shape.                                                                  *)
(***************************************************************************)
GenIds == <<"n1", "n2", "n3", "n4", "n5">>

\* An id no generated node has
GhostId == "ghost"

\* Positions taken from the literal nodes
GenPositions == << <<50, 200>>, <<500, 100>>, <<650, 350>>, <<800, 200>>, <<500, 300>> >>

Tags == {TagInput, TagProcess, TagOutput, TagUnknown}

GenNode(n, type) == Node(GenIds[n], GenIds[n], type, GenPositions[n][1], GenPositions[n][2])

\* The tag of the n-th node where the tags are not what varies
DefaultTag(n) == IF n = 1 THEN TagInput ELSE IF n % 2 = 0 THEN TagProcess ELSE TagOutput

\* Nodes n1..nn of every choice of tags, joined in a chain
TypedFlowInputs ==
    UNION {{[nodes |-> [m \in 1..n |-> GenNode(m, types[m])],
             edges |-> [m \in 1..(n - 1) |-> Edge(GenIds[m], GenIds[m + 1], "")]]
            : types \in [1..n -> Tags]}
           : n \in 0..MaxTypedNodes}

\* Nodes n1..nn joined by every edge list, the ghost id among the endpoints
EdgedFlowInputs ==
    UNION {{[nodes |-> [m \in 1..n |-> GenNode(m, DefaultTag(m))],
             edges |-> [m \in 1..Len(es) |-> Edge(es[m][1], es[m][2], "")]]
            : es \in SeqsUpTo(({GenIds[m] : m \in 1..n} \cup {GhostId})
                              \X ({GenIds[m] : m \in 1..n} \cup {GhostId}), MaxEdges)}
           : n \in 0..MaxEdgeNodes}

FlowInputs == {FlowData} \cup TypedFlowInputs \cup EdgedFlowInputs

\* Positions taken from the literal tree, in tenths
GenTreePositions == << <<0, 50>>, <<-30, 40>>, <<-35, 30>>, <<60, 30>>, <<-13, 30>> >>

GenTreeNode(n, level) ==
    TreeNode(GenIds[n], GenTreePositions[n][1], GenTreePositions[n][2], level)

Orders(n) == {p \in [1..n -> 1..n] : \A a, b \in 1..n : a # b => p[a] # p[b]}

\* Nodes n1..nn of every choice of levels (one past the last level drawn
\* included), in every order of the dict's entries, joined in a chain
OrderedTreeInputs ==
    UNION {{[nodes |-> [m \in 1..n |-> GenTreeNode(order[m], levels[order[m]])],
             connections |-> [m \in 1..(n - 1) |-> <<GenIds[m], GenIds[m + 1]>>]]
            : order \in Orders(n), levels \in [1..n -> 0..NumLevels]}
           : n \in 0..MaxTreeNodes}

\* Nodes n1..nn joined by every connection list, the ghost name among the ends
ConnectedTreeInputs ==
    UNION {{[nodes |-> [m \in 1..n |-> GenTreeNode(m, (m - 1) % NumLevels)],
             connections |-> cs]
            : cs \in SeqsUpTo(({GenIds[m] : m \in 1..n} \cup {GhostId})
                              \X ({GenIds[m] : m \in 1..n} \cup {GhostId}), MaxEdges)}
           : n \in 0..MaxEdgeNodes}

TreeInputs == {TreeData} \cup OrderedTreeInputs \cup ConnectedTreeInputs

\* Every dict with at most maxlen distinct keys of the given ones, in every
\* order, and values of the given ones
DictsOver(keys, maxlen, values) ==
    UNION {{[n \in 1..Len(ks) |-> Entry(ks[n], vs[n])] : vs \in [1..Len(ks) -> values]}
           : ks \in DistinctSeqsUpTo(keys, maxlen)}

FieldKeys == {"f1", "f2", "f3"}

DescriptionOf(field) ==
    IF field = "f1" THEN Str("d1") ELSE IF field = "f2" THEN Str("d2") ELSE Str("d3")

FieldDicts ==
    {[n \in 1..Len(ks) |-> Entry(ks[n], DescriptionOf(ks[n]))]
     : ks \in DistinctSeqsUpTo(FieldKeys, MaxFields)}

SubKeys == {"B", "C"}

SubValues == {Str("plain description")} \cup {Dict(d) : d \in FieldDicts}

\* One category with every subcategory dict
DeepMappings ==
    {<<Entry("A", Dict(sd))>> : sd \in DictsOver(SubKeys, Cardinality(SubKeys), SubValues)}

CatKeys == {"A", "Key Differences", "Component Mapping"}

CatValues ==
    { Str("top-level text"),
      Dict(<<>>),
      Dict(<<Entry("B", Str("plain description"))>>),
      Dict(<<Entry("C", Dict(<<Entry("f2", Str("d2")), Entry("f1", Str("d1"))>>)),
             Entry("B", Str("plain description"))>>) }

\* Categories in every order, each a string or a small dict
WideMappings == DictsOver(CatKeys, MaxCats, CatValues)

FlattenInputs == {af_to_mastra_mapping} \cup DeepMappings \cup WideMappings

Inputs(s) ==
    IF s = "chart_script" THEN FlowInputs
    ELSE IF s = "chart_script_1" THEN TreeInputs
    ELSE FlattenInputs

Scripts == {"chart_script", "chart_script_1", "script"}

(***************************************************************************)
(* The process before its first statement.                                 *)
(***************************************************************************)
Init ==
    /\ script \in Scripts
    /\ data \in Inputs(script)
    /\ pc = "start"
    /\ run = 1
    /\ i = 0 /\ j = 0 /\ k = 0
    /\ node_positions = <<>>
    /\ fig = <<>>
    /\ layout = None
    /\ seen_types = {}
    /\ rows = <<>>
    /\ out = None
    /\ stdout = None
    /\ err = None
    /\ prev = None

Next ==
    \/ FlowStart \/ AddEdge \/ EdgesDone \/ AddNode \/ NodesDone
    \/ LegendStep \/ FlowUpdateLayout \/ FlowWriteImage
    \/ TreeStart \/ AddConnection \/ ConnectionsDone \/ AddLevel
    \/ TreeUpdateLayout \/ TreeWriteImage
    \/ FlattenStart \/ NextCategory \/ NextSubcategory \/ AddFieldRow
    \/ FieldsDone \/ SubcategoriesDone \/ ToCsv \/ PrintCounts
    \/ Rerun

Spec == Init /\ [][Next]_vars

(***************************************************************************)
(* What the properties below read from the input, without going through    *)
(* the script's own variables.                                             *)
(***************************************************************************)
IsRenderer == IsFlow \/ IsTree

\* The number of edges (connections) of the renderer's input
EdgeCount == IF IsFlow THEN Len(data.edges) ELSE Len(data.connections)

\* The two node identifiers the n-th edge (connection) names
EdgeEnds(n) ==
    IF IsFlow THEN <<data.edges[n].from, data.edges[n].to>> ELSE data.connections[n]

\* The identifiers of the node set
NodeIds ==
    IF IsFlow THEN {data.nodes[n].id : n \in 1..Len(data.nodes)}
    ELSE {data.nodes[n].name : n \in 1..Len(data.nodes)}

Dangling(n) == EdgeEnds(n)[1] \notin NodeIds \/ EdgeEnds(n)[2] \notin NodeIds

HasDangling == \E n \in 1..EdgeCount : Dangling(n)

FirstDangling ==
    CHOOSE n \in 1..EdgeCount : Dangling(n) /\ \A m \in 1..(n - 1) : ~Dangling(m)

\* The identifier of the n-th edge that is looked up first and not found
MissingId(n) ==
    IF EdgeEnds(n)[1] \notin NodeIds THEN EdgeEnds(n)[1] ELSE EdgeEnds(n)[2]

TracesPerEdge == IF IsFlow THEN 2 ELSE 1

EdgeLoop == IF IsFlow THEN "edges" ELSE "connections"

LookedUpIn == IF IsFlow THEN "node_positions" ELSE "nodes"

\* The flow node of an id
FlowNode(id) == data.nodes[CHOOSE n \in 1..Len(data.nodes) : data.nodes[n].id = id]

\* str.capitalize(): the first character upper-cased, the others lower-cased
Capitalize(s) == [n \in 1..Len(s) |-> IF n = 1 THEN ToUpper(s[n]) ELSE ToLower(s[n])]

LegendPassDone == IsFlow /\ pc \in {"write", "done"}

NodeTypes == {data.nodes[n].type : n \in 1..Len(data.nodes)}

FirstOfType(t) ==
    CHOOSE n \in 1..Len(data.nodes) :
        /\ data.nodes[n].type = t
        /\ \A m \in 1..(n - 1) : data.nodes[m].type # t

ShownAs(name) == {m \in 1..Len(fig) : fig[m].showlegend /\ fig[m].name = Some(name)}

C2_LegendDeduplicated ==
    LegendPassDone =>
        /\ \A t \in NodeTypes :
              ShownAs(Capitalize(t)) = {2 * Len(data.edges) + FirstOfType(t)}
        /\ Cardinality({m \in 1..Len(fig) : fig[m].showlegend}) = Cardinality(NodeTypes)
        /\ \A m \in 1..Len(fig) :
              fig[m].mode \in {"lines", "markers"} =>
                  ~fig[m].showlegend /\ fig[m].name = None

C2_Witness ==
    /\ LegendPassDone
    /\ pc = "done"
    /\ Cardinality({n \in 1..Len(data.nodes) : data.nodes[n].type = TagProcess}) >= 3
    /\ ShownAs(<<"P","r","o","c","e","s","s">>) # {}
    /\ Len(data.edges) > 0

(***************************************************************************)
(* C3.  The flattener's rows are in declaration order: top-level keys in   *)
(* their order, within one category the subcategory keys in their order,   *)
(* within one subcategory the field keys in their order.  Flattening       *)
(* {"A": {"B": {"f1": "d1", "f2": "d2"}}} gives ("A","B","f1","d1") and    *)
(* then ("A","B","f2","d2").                                               *)
(***************************************************************************)
\* The position of a key among the entries of a dict
KeyIndex(items, key) == CHOOSE n \in 1..Len(items) : items[n].key = key

\* Where a row comes from: the positions of its category, of its subcategory
\* and of its field (0 for a row without field)
RowPath(r) ==
    LET ci == KeyIndex(data, r.Category)
        si == KeyIndex(data[ci].value.items, r.Subcategory)
    IN  <<ci, si,
          IF data[ci].value.items[si].value.isdict
          THEN KeyIndex(data[ci].value.items[si].value.items, r.Field)
          ELSE 0>>

PathBefore(p, q) ==
    \/ p[1] < q[1]
    \/ p[1] = q[1] /\ p[2] < q[2]
    \/ p[1] = q[1] /\ p[2] = q[2] /\ p[3] < q[3]

OrderExample ==
    <<Entry("A", Dict(<<Entry("B", Dict(<<Entry("f1", Str("d1")),
                                         Entry("f2", Str("d2"))>>))>>))>>

C3_RowsInDeclarationOrder ==
    IsFlatten =>
        /\ \A a, b \in 1..Len(rows) :
              a < b => PathBefore(RowPath(rows[a]), RowPath(rows[b]))
        /\ pc = "done" => out[1].rows = rows
        /\ (pc = "done" /\ data = OrderExample) =>
              rows = <<Row("A", "B", "f1", Str("d1")), Row("A", "B", "f2", Str("d2"))>>

C3_Witness ==
    /\ IsFlatten /\ pc = "done"
    /\ data = OrderExample
    /\ Len(out[1].rows) = 2

(***************************************************************************)
(* C4.  A subcategory whose value is a string and not a dict gives exactly *)
(* one row: category and subcategory filled in, Field empty, Description   *)
(* the string.  Flattening {"A": {"B": "plain description"}} gives         *)
(* ("A","B","","plain description") and nothing else.                      *)
(***************************************************************************)
BareExample == <<Entry("A", Dict(<<Entry("B", Str("plain description"))>>))>>

RowsOf(category, subcategory) ==
    {n \in 1..Len(rows) : rows[n].Category = category /\ rows[n].Subcategory = subcategory}

C4_BareStringSubcategory ==
    (IsFlatten /\ pc = "done") =>
        /\ \A ci \in 1..Len(data) :
              data[ci].value.isdict =>
                  \A si \in 1..Len(data[ci].value.items) :
                      LET sub == data[ci].value.items[si] IN
                      ~sub.value.isdict =>
                          /\ Cardinality(RowsOf(data[ci].key, sub.key)) = 1
                          /\ \A n \in RowsOf(data[ci].key, sub.key) :
                                rows[n] = [Category |-> data[ci].key,
                                           Subcategory |-> sub.key,
                                           Field |-> "",
                                           Description |-> sub.value]
        /\ data = BareExample =>
              out[1].rows = <<[Category |-> "A", Subcategory |-> "B", Field |-> "",
                               Description |-> Str("plain description")]>>

C4_Witness ==
    /\ IsFlatten /\ pc = "done"
    /\ data = BareExample
    /\ Len(rows) = 1

(***************************************************************************)
(* C5.  Every edge of the flow diagram has exactly one arrowhead, the      *)
(* marker trace added right after the edge's line, and it lies nine tenths *)
(* of the way from the source node to the destination node on both axes:   *)
(* 10 * (arrow - source) = 9 * (destination - source).                     *)
(***************************************************************************)
EdgeLoopDone == IsFlow /\ pc \in {"nodes", "legend", "write", "done"}

NineTenthsAlong(arrow, from, to) == 10 * (arrow - from) = 9 * (to - from)

C5_ArrowheadAtNineTenths ==
    EdgeLoopDone =>
        /\ \A n \in 1..Len(data.edges) :
              LET src == FlowNode(data.edges[n].from)
                  dst == FlowNode(data.edges[n].to)
                  arrow == fig[2 * n]
              IN  /\ arrow.mode = "markers"
                  /\ Len(arrow.x) = 1 /\ Len(arrow.y) = 1
                  /\ NineTenthsAlong(arrow.x[1], src.x, dst.x)
                  /\ NineTenthsAlong(arrow.y[1], src.y, dst.y)
        /\ Cardinality({m \in 1..Len(fig) : fig[m].mode = "markers"}) = Len(data.edges)

C5_Witness ==
    /\ IsFlow /\ pc = "done"
    /\ \E n \in 1..Len(data.edges) :
          /\ FlowNode(data.edges[n].to).x < FlowNode(data.edges[n].from).x
          /\ FlowNode(data.edges[n].to).y # FlowNode(data.edges[n].from).y
          /\ fig[2 * n].x[1] # FlowNode(data.edges[n].from).x
          /\ fig[2 * n].x[1] # FlowNode(data.edges[n].to).x

(***************************************************************************)
(* C6.  In the hierarchy tree every node of level 0, 1 or 2 is drawn once, *)
(* in the trace of its level, with the marker size, font size and color of *)
(* that level: 20, 14 and the first color for level 0; 15, 11 and the      *)
(* second for level 1; 12, 9 and the third for level 2.  The order of the  *)
(* entries of the node mapping plays no part.                              *)
(***************************************************************************)
LevelLoopDone == IsTree /\ pc \in {"write", "done"}

TierSizes == <<20, 15, 12>>

TierFonts == <<14, 11, 9>>

TierColors == <<"#1FB8CD", "#FFC185", "#ECEBD5">>

\* The places (trace, position in the trace) where a name is drawn
DrawnAt(name) ==
    {p \in (1..Len(fig)) \X (1..Len(data.nodes)) :
        /\ fig[p[1]].mode = "markers+text"
        /\ p[2] <= Len(fig[p[1]].text)
        /\ fig[p[1]].text[p[2]] = name}

C6_TierByLevel ==
    LevelLoopDone =>
        \A n \in 1..Len(data.nodes) :
            LET node == data.nodes[n] IN
            node.level \in 0..2 =>
                /\ Cardinality(DrawnAt(node.name)) = 1
                /\ \A p \in DrawnAt(node.name) :
                      /\ fig[p[1]].size = TierSizes[node.level + 1]
                      /\ fig[p[1]].fontsize = TierFonts[node.level + 1]
                      /\ fig[p[1]].color = TierColors[node.level + 1]
                      /\ fig[p[1]].x[p[2]] = node.x
                      /\ fig[p[1]].y[p[2]] = node.y

\* A deeper node stands before a shallower one in the mapping
C6_Witness ==
    /\ LevelLoopDone /\ pc = "done"
    /\ \E a, b \in 1..Len(data.nodes) :
          /\ a < b
          /\ data.nodes[a].level = 2
          /\ data.nodes[b].level = 0
    /\ \E n \in 1..Len(data.nodes) : data.nodes[n].level = 1

(***************************************************************************)
(* C7.  A second run of a renderer on the same data ends as the first run  *)
(* did: the same traces in the same order (coordinates, colors, edge       *)
(* segments, arrowhead positions, legend flags), the same layout, the same *)
(* file, the same exception if any.                                        *)
(***************************************************************************)
C7_SecondRunIdentical ==
    (IsRenderer /\ run = 2 /\ Finished) =>
        prev = Some([fig |-> fig, layout |-> layout, out |-> out, err |-> err])

C7_Witness ==
    /\ IsRenderer /\ run = 2 /\ pc = "done"
    /\ Len(fig) > 2
    /\ out # None

(***************************************************************************)
(* C8.  Once the layout is set, every point of every trace (the nodes, the *)
(* ends of the edges, the arrowheads) lies strictly inside the axis        *)
(* ranges, which are x in [-20, 870], y in [50, 400] for the flow diagram  *)
(* and x in [-5, 7], y in [2.5, 5.5] for the tree (in tenths below).       *)
(***************************************************************************)
LayoutSet == IsRenderer /\ pc \in {"write", "done"}

StrictlyInside(v, range) == range[1] < v /\ v < range[2]

C8_PointsInsideAxisRanges ==
    LayoutSet =>
        /\ layout # None
        /\ IsFlow => layout[1].xrange = <<-200, 8700>> /\ layout[1].yrange = <<500, 4000>>
        /\ IsTree => layout[1].xrange = <<-50, 70>> /\ layout[1].yrange = <<25, 55>>
        /\ \A m \in 1..Len(fig) :
              /\ \A n \in 1..Len(fig[m].x) : StrictlyInside(fig[m].x[n], layout[1].xrange)
              /\ \A n \in 1..Len(fig[m].y) : StrictlyInside(fig[m].y[n], layout[1].yrange)

C8_Witness ==
    /\ IsFlow /\ pc = "done"
    /\ data = FlowData
    /\ Len(out[1].data) = 32

(***************************************************************************)
(* C9.  The traces of the flow diagram are, for each edge in edge-list     *)
(* order, its line and then its arrowhead, and after all of them one trace *)
(* per node in node-list order: 2 * |edges| + |nodes| traces.  The image   *)
(* is written only when all of them are there, the legend pass is over     *)
(* and the layout is set.                                                  *)
(***************************************************************************)
\* The first 2 * |edges| traces are the edges', a line and an arrowhead each
EdgesFirst ==
    \A n \in 1..Len(data.edges) :
        LET src == FlowNode(data.edges[n].from)
            dst == FlowNode(data.edges[n].to)
        IN  /\ fig[2 * n - 1].mode = "lines"
            /\ fig[2 * n - 1].x = <<src.x, dst.x>>
            /\ fig[2 * n - 1].y = <<src.y, dst.y>>
            /\ fig[2 * n].mode = "markers"

\* The traces after them are the nodes', as many as m
NodesAfter(m) ==
    /\ Len(fig) = 2 * Len(data.edges) + m
    /\ \A n \in 1..m :
          LET t == fig[2 * Len(data.edges) + n] IN
          /\ t.mode = "markers+text"
          /\ t.x = <<data.nodes[n].x>>
          /\ t.y = <<data.nodes[n].y>>
          /\ t.text = <<data.nodes[n].label>>

\* No two traces shown in the legend have the same name
NoDuplicateLegend(traces) ==
    \A a, b \in 1..Len(traces) :
        (a # b /\ traces[a].showlegend /\ traces[b].showlegend) =>
            traces[a].name # traces[b].name

C9_EdgesBeforeNodesThenImage ==
    IsFlow =>
        /\ pc = "nodes" => EdgesFirst /\ NodesAfter(i - 1)
        /\ pc \in {"legend", "write", "done"} => EdgesFirst /\ NodesAfter(Len(data.nodes))
        /\ (run = 1 /\ pc # "done") => out = None
        /\ out # None =>
              /\ Len(out[1].data) = 2 * Len(data.edges) + Len(data.nodes)
              /\ NoDuplicateLegend(out[1].data)
              /\ out[1].layout = FlowLayout
        /\ pc = "done" => out[1].data = fig

C9_Witness ==
    /\ IsFlow /\ pc = "done" /\ run = 1
    /\ Len(data.edges) >= 2
    /\ Len(data.nodes) >= 2
    /\ Len(fig) = 2 * Len(data.edges) + Len(data.nodes)

(***************************************************************************)
(* C10.  The flattener gives one row per innermost value of the top-level  *)
(* entries that are dicts: one per field of a subcategory that is a dict,  *)
(* one per subcategory that is not.  A top-level entry that is not a dict  *)
(* gives no row and no error: it is absent from the output.                *)
(***************************************************************************)
\* The number of rows a subcategory value stands for
Innermost(details) == IF details.isdict THEN Len(details.items) ELSE 1

RECURSIVE InnermostOfItems(_)
InnermostOfItems(items) ==
    IF items = <<>> THEN 0
    ELSE Innermost(Head(items).value) + InnermostOfItems(Tail(items))

RECURSIVE InnermostOfMapping(_)
InnermostOfMapping(mapping) ==
    IF mapping = <<>> THEN 0
    ELSE (IF Head(mapping).value.isdict
          THEN InnermostOfItems(Head(mapping).value.items) ELSE 0)
         + InnermostOfMapping(Tail(mapping))

C10_OneRowPerInnermostValue ==
    IsFlatten =>
        /\ pc \in {"print", "done"} =>
              /\ Len(rows) = InnermostOfMapping(data)
              /\ Len(out[1].rows) = InnermostOfMapping(data)
              /\ \A ci \in 1..Len(data) :
                    ~data[ci].value.isdict =>
                        \A n \in 1..Len(rows) : rows[n].Category # data[ci].key
        /\ err = None
        /\ pc # "failed"
        /\ pc # "done" => ENABLED Next

C10_Witness ==
    /\ IsFlatten /\ pc = "done"
    /\ \E ci \in 1..Len(data) : ~data[ci].value.isdict
    /\ Len(rows) >= 3

====
